---- MODULE Spec2Model ----
(***************************************************************************)
(* A model of the CHIP-8 engine of src/src/emulator.rs (struct Chip8Emu):  *)
(* the machine state, the loader, the keypad and timer operations and the  *)
(* fetch-decode-execute cycle, opcode by opcode.                           *)
(*                                                                         *)
(* The short Vecs (registers, stack, keys, rpl) are sequences; Rust's      *)
(* 0-based index i is element i + 1. The byte images (memory, gfx) are     *)
(* Vec<u8> values written as their length and their non-zero bytes.        *)
(* An indexing outside a Vec, and an arithmetic overflow under a build     *)
(* with overflow checks, abort the process: the operation then ends in     *)
(* Panic and no further operation is possible. Whether the build checks    *)
(* overflow (debug profile) or wraps (release profile) is not fixed by the *)
(* sources, so an overflowing operation may do either.                     *)
(***************************************************************************)
EXTENDS Integers, Sequences, FiniteSets, TLC

VARIABLES
    opcode,            \* Chip8Emu.opcode: u16, the last fetched opcode
    memory,            \* Chip8Emu.memory: Vec<u8>
    registers,         \* Chip8Emu.registers: Vec<u8>, V0..VF
    index_register,    \* Chip8Emu.index_register: u16
    program_counter,   \* Chip8Emu.program_counter: u16
    gfx,               \* Chip8Emu.gfx: Vec<u8>, 8 bytes per row
    delay_timer,       \* Chip8Emu.delay_timer: u8
    sound_timer,       \* Chip8Emu.sound_timer: u8
    stack,             \* Chip8Emu.stack: Vec<u16>
    stack_pointer,     \* Chip8Emu.stack_pointer: u16
    keys,              \* Chip8Emu.keys: Vec<bool>
    quirks,            \* Chip8Emu.quirks: Quirks
    rpl,               \* Chip8Emu.rpl: Vec<u8>
    is_hi_res_mode,    \* Chip8Emu.is_hi_res_mode: bool
    panicked,          \* TRUE once a call has panicked: the process is gone
    running,           \* App.running: the host runs a cycle on every Tick
    filenames,         \* FileSelector.filenames: Vec<String>
    selected_file,     \* FileSelector.selected_file: usize
    is_focused         \* FileSelector.is_focused: bool

emu == <<opcode, memory, registers, index_register, program_counter, gfx,
         delay_timer, sound_timer, stack, stack_pointer, keys, quirks, rpl,
         is_hi_res_mode>>

\* the fields of the file selector component
selector == <<filenames, selected_file, is_focused>>

vars == <<emu, panicked, running, selector>>

----------------------------------------------------------------------------
(* Bounds of the model. *)

\* the host presses and releases the keys 0..MaxKey and the invalid key 16
MaxKey == 1

\* a selection that wrapped below 0 is followed for MaxWrapped steps down
MaxWrapped == 2

----------------------------------------------------------------------------
(* Integer helpers: u8 / u16 bit operations as Rust computes them. *)

RECURSIVE BitAnd(_, _)
BitAnd(a, b) ==
    IF a = 0 \/ b = 0 THEN 0
    ELSE (a % 2) * (b % 2) + 2 * BitAnd(a \div 2, b \div 2)

RECURSIVE BitOr(_, _)
BitOr(a, b) ==
    IF a = 0 THEN b
    ELSE IF b = 0 THEN a
    ELSE (IF a % 2 = 1 \/ b % 2 = 1 THEN 1 ELSE 0) + 2 * BitOr(a \div 2, b \div 2)

\* a | b where the code has a ^ b
BitXorAsOr(a, b) == BitOr(a, b)

RECURSIVE BitXor(_, _)
BitXor(a, b) ==
    IF a = 0 THEN b
    ELSE IF b = 0 THEN a
    ELSE ((a + b) % 2) + 2 * BitXor(a \div 2, b \div 2)

RECURSIVE Pow2(_)
Pow2(k) == IF k = 0 THEN 1 ELSE 2 * Pow2(k - 1)

\* a >> k on a u8
Shr(a, k) == a \div Pow2(k)

\* a << k on a u8 (the bits shifted past bit 7 are dropped)
Shl8(a, k) == (a * Pow2(k)) % 256

\* vec![v; n]
Fill(v, n) == [i \in 1..n |-> v]

\* v[i] for a Vec v and a 0-based index i
At(v, i) == v[i + 1]

\* v[i] = val
Put(v, i, val) == [v EXCEPT ![i + 1] = val]

\* whether indexing v[i] stays inside the Vec (otherwise Rust panics)
InBounds(v, i) == i >= 0 /\ i < Len(v)

(* A byte image is a Vec<u8> given by its length len and the function nz   *)
(* from the 0-based indexes of its non-zero bytes to those bytes.          *)

\* vec![0x00; n]
Zeros(n) == [len |-> n, nz |-> [a \in {} |-> 0]]

\* the Vec<u8> holding the bytes of the sequence s
FromSeq(s) ==
    [len |-> Len(s),
     nz |-> [a \in {i \in 0..(Len(s) - 1) : s[i + 1] # 0} |-> s[a + 1]]]

\* v.len()
BLen(v) == v.len

\* v[i]
BAt(v, i) == IF i \in DOMAIN v.nz THEN v.nz[i] ELSE 0

\* v[i] = val
BPut(v, i, val) ==
    [v EXCEPT !.nz =
        [a \in (IF val = 0 THEN DOMAIN v.nz \ {i} ELSE DOMAIN v.nz \cup {i}) |->
            IF a = i THEN val ELSE v.nz[a]]]

\* whether indexing v[i] stays inside the Vec (otherwise Rust panics)
BInBounds(v, i) == i >= 0 /\ i < v.len

\* a followed by b (Vec::append, concat)
BCat(a, b) ==
    [len |-> a.len + b.len,
     nz |-> [i \in DOMAIN a.nz \cup {j + a.len : j \in DOMAIN b.nz} |->
                IF i < a.len THEN a.nz[i] ELSE b.nz[i - a.len]]]

----------------------------------------------------------------------------
(* Return values. *)

OkRet == <<"Ok">>
UnitRet == <<"()">>
BoolRet(b) == <<"bool", b>>
UnknownOpcode(op) == <<"UnknownOpcode", op>>
InvalidValueInRegister(r, v) == <<"InvalidValueInRegister", r, v>>
FileError(path) == <<"FileError", path>>
NoSubroutineToExit == <<"NoSubroutineToExit">>
InvalidKeycode == <<"InvalidKeycode">>
ProgramExited == <<"ProgramExited">>
InvalidRegisterReference == <<"InvalidRegisterReference">>
StackOverflow == <<"StackOverflow">>
\* the process aborted inside the call (index out of bounds, overflow check)
Panic == <<"panic">>

----------------------------------------------------------------------------
(* The font table. *)

font ==
    FromSeq(
    << 240, 144, 144, 144, 240,    \* 0
       32,  96,  32,  32,  112,    \* 1
       240, 16,  240, 128, 240,    \* 2
       240, 16,  240, 16,  240,    \* 3
       144, 144, 240, 16,  16,     \* 4
       240, 128, 240, 16,  240,    \* 5
       240, 128, 240, 144, 240,    \* 6
       240, 16,  32,  64,  64,     \* 7
       240, 144, 240, 144, 240,    \* 8
       240, 144, 240, 16,  240,    \* 9
       240, 144, 240, 144, 144,    \* A
       224, 144, 224, 144, 224,    \* B
       240, 128, 128, 128, 240,    \* C
       224, 144, 144, 144, 224,    \* D
       240, 128, 240, 128, 240,    \* E
       240, 128, 240, 128, 128 >>) \* F

----------------------------------------------------------------------------
(* The machine as one record, and its construction. *)

Machine ==
    [ opcode |-> opcode, memory |-> memory, registers |-> registers,
      index_register |-> index_register, program_counter |-> program_counter,
      gfx |-> gfx, delay_timer |-> delay_timer, sound_timer |-> sound_timer,
      stack |-> stack, stack_pointer |-> stack_pointer, keys |-> keys,
      quirks |-> quirks, rpl |-> rpl, is_hi_res_mode |-> is_hi_res_mode ]

SetMachine(m) ==
    /\ opcode' = m.opcode
    /\ memory' = m.memory
    /\ registers' = m.registers
    /\ index_register' = m.index_register
    /\ program_counter' = m.program_counter
    /\ gfx' = m.gfx
    /\ delay_timer' = m.delay_timer
    /\ sound_timer' = m.sound_timer
    /\ stack' = m.stack
    /\ stack_pointer' = m.stack_pointer
    /\ keys' = m.keys
    /\ quirks' = m.quirks
    /\ rpl' = m.rpl
    /\ is_hi_res_mode' = m.is_hi_res_mode

\* quirks that enable the SUPER-CHIP opcodes
QuirksSuperChip ==
    [ superchip_opcodes |-> TRUE, superchip_shift |-> FALSE,
      superchip_offset_jump |-> FALSE, superchip_memory |-> FALSE ]

QuirksDefault ==
    [ superchip_opcodes |-> FALSE, superchip_shift |-> FALSE,
      superchip_offset_jump |-> FALSE, superchip_memory |-> FALSE ]

Chip8EmuDefault ==
    [ opcode |-> 0,
      memory |-> Zeros(4096),
      registers |-> Fill(0, 16),
      index_register |-> 0,
      program_counter |-> 512,
      gfx |-> Zeros(8 * 32),
      delay_timer |-> 0,
      sound_timer |-> 0,
      stack |-> Fill(0, 16),
      stack_pointer |-> 0,
      keys |-> Fill(FALSE, 16),
      quirks |-> QuirksDefault,
      rpl |-> Fill(0, 8),
      is_hi_res_mode |-> FALSE ]

\* a reset that leaves keys and registers as they are
resetKeepsKeys(m) ==
    [ m EXCEPT
      !.opcode = 0,
      !.memory = Zeros(4096),
      !.index_register = 0,
      !.program_counter = 512,
      !.gfx = Zeros(8 * 32),
      !.delay_timer = 0,
      !.sound_timer = 0,
      !.stack = Fill(0, 16),
      !.stack_pointer = 0,
      !.is_hi_res_mode = FALSE ]

\* screen(): self.gfx.clone()
screen(m) == m.gfx

reset(m) ==
    [ m EXCEPT
      !.opcode = 0,
      !.memory = Zeros(4096),
      !.registers = Fill(0, 16),
      !.index_register = 0,
      !.program_counter = 512,
      !.gfx = Zeros(8 * 32),
      !.delay_timer = 0,
      !.sound_timer = 0,
      !.stack = Fill(0, 16),
      !.stack_pointer = 0,
      !.keys = Fill(FALSE, 16),
      !.is_hi_res_mode = FALSE ]

----------------------------------------------------------------------------
(* Outcome of a handler: the machine it leaves and what the call returns.  *)

Done(m) == [m |-> m, ret |-> OkRet]
Fail(m, e) == [m |-> m, ret |-> e]

V(m, r) == At(m.registers, r)
SetV(m, r, val) == [m EXCEPT !.registers = Put(m.registers, r, val)]

----------------------------------------------------------------------------
(* emulate_cycle: the opcode handlers. Each takes the machine after the    *)
(* fetch, with program_counter already advanced by 2.                      *)

\* 0x00E0 - Clear screen
Op00E0(m) == Done([m EXCEPT !.gfx = Zeros(8 * 32)])

\* 0x00EE - Exit from subroutine
\* a 00EE that checks the stack pointer before it pops
Op00EECheckFirst(m) ==
    IF m.stack_pointer = 0 THEN Fail(m, NoSubroutineToExit)
    ELSE IF ~InBounds(m.stack, m.stack_pointer) THEN Fail(m, Panic)
    ELSE Done([m EXCEPT !.program_counter = At(m.stack, m.stack_pointer),
                        !.stack_pointer = m.stack_pointer - 1])

Op00EE(m) ==
    IF ~InBounds(m.stack, m.stack_pointer) THEN Fail(m, Panic)
    ELSE LET m1 == [m EXCEPT !.program_counter = At(m.stack, m.stack_pointer)]
         IN  IF m.stack_pointer = 0
             THEN Fail(m1, NoSubroutineToExit)
             ELSE Done([m1 EXCEPT !.stack_pointer = m.stack_pointer - 1])

\* 0x1NNN - Jump to NNN
Op1NNN(m, nnn) == Done([m EXCEPT !.program_counter = nnn])

\* 0x2NNN - Start subroutine from address NNN
\* a call that stores the return address before it moves the stack pointer
Op2NNNStoreFirst(m, nnn) ==
    IF ~InBounds(m.stack, m.stack_pointer) THEN Fail(m, Panic)
    ELSE Done([m EXCEPT
               !.stack = Put(m.stack, m.stack_pointer, m.program_counter),
               !.stack_pointer = m.stack_pointer + 1,
               !.program_counter = nnn])

Op2NNN(m, nnn) ==
    LET m1 == [m EXCEPT !.stack_pointer = m.stack_pointer + 1]
    IN  IF ~InBounds(m1.stack, m1.stack_pointer) THEN Fail(m1, Panic)
        ELSE Done([m1 EXCEPT
                   !.stack = Put(m1.stack, m1.stack_pointer, m1.program_counter),
                   !.program_counter = nnn])

\* the body of every skip opcode: program_counter += 2 when the condition holds
\* a skip of one byte
SkipIfShort(m, cond) ==
    IF cond THEN Done([m EXCEPT !.program_counter = m.program_counter + 1])
    ELSE Done(m)

SkipIf(m, cond) ==
    IF cond THEN Done([m EXCEPT !.program_counter = m.program_counter + 2])
    ELSE Done(m)

\* 0x3XNN - Skip if VX == NN
Op3XNN(m, x, nn) == SkipIf(m, V(m, x) = nn)

\* 0x4XNN - Skip if VX != NN
Op4XNN(m, x, nn) == SkipIf(m, V(m, x) # nn)

\* 0x5000..=0x5FF0 - Skip if VX == VY
Op5XY0(m, x, y) == SkipIf(m, V(m, x) = V(m, y))

\* 0x6XNN - Set VX to NN
Op6XNN(m, x, nn) == Done(SetV(m, x, nn))

\* 0x7XNN - Add NN to VX (wrapping_add)
Op7XNN(m, x, nn) == Done(SetV(m, x, (V(m, x) + nn) % 256))

\* 0x8XYN - Logical and arithmetic instructions
\* 4 => VX is set to the value of VX plus the value of VY
Op8XY4(m, x, y) ==
    LET sum == V(m, x) + V(m, y)
    IN  Done(SetV(SetV(m, x, sum % 256), 15, IF sum > 255 THEN 1 ELSE 0))

\* an 8XY5 whose flag is the borrow
Op8XY5BorrowFlag(m, x, y) ==
    LET is_overflow == V(m, x) < V(m, y)
        result == (V(m, x) - V(m, y)) % 256
    IN  Done(SetV(SetV(m, x, result), 15, IF is_overflow THEN 1 ELSE 0))

\* 5 => VX is set to the result of VX - VY
Op8XY5(m, x, y) ==
    LET is_overflow == V(m, x) < V(m, y)
        result == (V(m, x) - V(m, y)) % 256
    IN  Done(SetV(SetV(m, x, result), 15, 1 - (IF is_overflow THEN 1 ELSE 0)))

\* an 8XY6 that shifts VX in place
Op8XY6InPlace(m, x, y) ==
    LET shifted_out == V(m, x) % 2
        m2 == SetV(m, x, Shr(V(m, x), 1))
    IN  Done(SetV(m2, 15, shifted_out))

\* 6 => sets VX equal to VY and shifts it one bit to the right
Op8XY6(m, x, y) ==
    LET m1 == SetV(m, x, V(m, y))
        shifted_out == V(m1, x) % 2
        m2 == SetV(m1, x, Shr(V(m1, x), 1))
    IN  Done(SetV(m2, 15, shifted_out))

\* 7 => VX is set to the result of VY - VX
Op8XY7(m, x, y) ==
    LET is_overflow == V(m, y) < V(m, x)
        result == (V(m, y) - V(m, x)) % 256
    IN  Done(SetV(SetV(m, x, result), 15, 1 - (IF is_overflow THEN 1 ELSE 0)))

\* 0xE => sets VX equal to VY and shifts it one bit to the left
Op8XYE(m, x, y) ==
    LET m1 == SetV(m, x, V(m, y))
        shifted_out == IF V(m1, x) >= 128 THEN 1 ELSE 0
        m2 == SetV(m1, x, Shl8(V(m1, x), 1))
    IN  Done(SetV(m2, 15, shifted_out))

Op8XYN(m, x, y, n) ==
    CASE n = 0 -> Done(SetV(m, x, V(m, y)))
      [] n = 1 -> Done(SetV(m, x, BitOr(V(m, x), V(m, y))))
      [] n = 2 -> Done(SetV(m, x, BitAnd(V(m, x), V(m, y))))
      [] n = 3 -> Done(SetV(m, x, BitXor(V(m, x), V(m, y))))
      [] n = 4 -> Op8XY4(m, x, y)
      [] n = 5 -> Op8XY5(m, x, y)
      [] n = 6 -> Op8XY6(m, x, y)
      [] n = 7 -> Op8XY7(m, x, y)
      [] n = 14 -> Op8XYE(m, x, y)
      [] OTHER -> Fail(m, UnknownOpcode(m.opcode))

\* 0x9000..=0x9FF0 - Skip if VX != VY
Op9XY0(m, x, y) == SkipIf(m, V(m, x) # V(m, y))

\* 0xANNN - Set index register to NNN
\* an ANNN that stores the whole opcode
OpANNNUnmasked(m, nnn) == Done([m EXCEPT !.index_register = m.opcode])

OpANNN(m, nnn) == Done([m EXCEPT !.index_register = nnn])

\* 0xBNNN - Jump with offset of NNN
OpBNNN(m, nnn) == Done([m EXCEPT !.program_counter = nnn + V(m, 0)])

\* 0xCXNN - Put random value with mask NN into VX; rnd is the value drawn
OpCXNN(m, x, nn, rnd) == Done(SetV(m, x, BitAnd(rnd, nn)))

\* One row of the DXYN loop: row is the loop variable, cx and cy the start
\* column and row of the sprite. The u8 sum cy * 8 + cx / 8 + row * 8 panics
\* on overflow under overflow checks and wraps otherwise.
DrawRow(m, row, cx, cy, checks) ==
    IF ~BInBounds(m.memory, m.index_register + row) THEN Fail(m, Panic)
    ELSE
    LET row_data == BAt(m.memory, m.index_register + row)
        sum == (cy * 8) + (cx \div 8) + ((row * 8) % 256)
    IN  IF sum > 255 /\ checks THEN Fail(m, Panic)
        ELSE
        LET screen_byte_index == sum % 256
            shift == cx % 8
        IN  IF ~BInBounds(m.gfx, screen_byte_index) THEN Fail(m, Panic)
            ELSE
            LET initial_screen_state == BAt(m.gfx, screen_byte_index)
                g1 == BPut(m.gfx, screen_byte_index,
                          BitXor(initial_screen_state, Shr(row_data, shift)))
                spill == shift # 0 /\ cx < 56
            IN  IF spill /\ ~BInBounds(g1, screen_byte_index + 1)
                THEN Fail([m EXCEPT !.gfx = g1], Panic)
                ELSE
                LET g2 == IF spill
                          THEN BPut(g1, screen_byte_index + 1,
                                    BitXor(BAt(g1, screen_byte_index + 1),
                                           Shl8(row_data, 8 - shift)))
                          ELSE g1
                    hit == BitAnd(Shl8(initial_screen_state, shift), row_data) # 0
                    m1 == [m EXCEPT !.gfx = g2]
                IN  Done(IF hit THEN SetV(m1, 15, 1) ELSE m1)

\* for row in 0..n
RECURSIVE DrawRows(_, _, _, _, _, _)
DrawRows(m, row, n, cx, cy, checks) ==
    IF row >= n THEN Done(m)
    ELSE LET r == DrawRow(m, row, cx, cy, checks)
         IN  IF r.ret # OkRet THEN r
             ELSE DrawRows(r.m, row + 1, n, cx, cy, checks)

\* 0xDXYN - Draw N bytes starting at memory address in index register at (VX, VY)
OpDXYN(m, x, y, n, checks) ==
    LET cx == BitAnd(V(m, x), 63)
        cy == BitAnd(V(m, y), 31)
    IN  DrawRows(SetV(m, 15, 0), 0, n, cx, cy, checks)

\* 0xEX9E - Skip if key VX is pressed
OpEX9E(m, x) == SkipIf(m, At(m.keys, BitAnd(V(m, x), 15)))

\* 0xEXA1 - Skip if key VX is not pressed
OpEXA1(m, x) == SkipIf(m, ~At(m.keys, BitAnd(V(m, x), 15)))

\* 0xFX07 - Set VX to the current value of the delay timer
OpFX07(m, x) == Done(SetV(m, x, m.delay_timer))

\* 0xFX15 - Set the delay timer to VX
OpFX15(m, x) == Done([m EXCEPT !.delay_timer = V(m, x)])

\* 0xFX18 - Set the sound timer to VX
OpFX18(m, x) == Done([m EXCEPT !.sound_timer = V(m, x)])

\* 0xFX1E - Add the value in VX to the index register
\* an FX1E that sets the flag but leaves the sum unwrapped
OpFX1ENoWrap(m, x) ==
    LET sum == m.index_register + V(m, x)
    IN  IF sum > 4095
        THEN Done([SetV(m, 15, 1) EXCEPT !.index_register = sum])
        ELSE Done([SetV(m, 15, 0) EXCEPT !.index_register = sum])

OpFX1E(m, x) ==
    LET sum == m.index_register + V(m, x)
    IN  IF sum > 4095
        THEN Done([SetV(m, 15, 1) EXCEPT !.index_register = sum - 4096])
        ELSE Done([SetV(m, 15, 0) EXCEPT !.index_register = sum])

\* position of the first pressed key (find_position)
FirstPressed(ks) == CHOOSE i \in 0..(Len(ks) - 1) :
                        At(ks, i) /\ \A j \in 0..(i - 1) : ~At(ks, j)

\* a key wait that takes the highest pressed key
OpFX0AHighest(m, x) ==
    IF \E i \in 0..(Len(m.keys) - 1) : At(m.keys, i)
    THEN Done(SetV(m, x, CHOOSE i \in 0..(Len(m.keys) - 1) :
                            At(m.keys, i) /\ \A j \in (i + 1)..(Len(m.keys) - 1) :
                                                ~At(m.keys, j)))
    ELSE Done([m EXCEPT !.program_counter = m.program_counter - 2])

\* 0xFX0A - Wait for a key press and store it in VX
OpFX0A(m, x) ==
    IF \E i \in 0..(Len(m.keys) - 1) : At(m.keys, i)
    THEN Done(SetV(m, x, FirstPressed(m.keys)))
    ELSE Done([m EXCEPT !.program_counter = m.program_counter - 2])

\* 0xFX29 - Set the index register to the position of the hexadecimal character in VX
OpFX29(m, x) ==
    IF V(m, x) \in 0..15
    THEN Done([m EXCEPT !.index_register = 80 + 5 * V(m, x)])
    ELSE Fail(m, InvalidValueInRegister(x, V(m, x)))

\* memory[addr] = val, or the panic of an index out of bounds
Store(r, addr, val) ==
    IF r.ret # OkRet THEN r
    ELSE IF ~BInBounds(r.m.memory, addr) THEN Fail(r.m, Panic)
    ELSE Done([r.m EXCEPT !.memory = BPut(r.m.memory, addr, val)])

\* 0xFX33 - Store the Binary-coded decimal value of VX starting at index register
OpFX33(m, x) ==
    LET i == m.index_register
        vx == V(m, x)
    IN  Store(Store(Store(Done(m), i, vx \div 100),
                    i + 1, (vx % 100) \div 10),
              i + 2, vx % 10)

\* 0xFX55 - Store V0 - VX into memory: for offset in 0..=x
RECURSIVE StoreRegs(_, _, _)
StoreRegs(r, offset, x) ==
    IF offset > x \/ r.ret # OkRet THEN r
    ELSE StoreRegs(Store(r, r.m.index_register + offset, V(r.m, offset)),
                   offset + 1, x)

\* a store of V0..VX that leaves VX out: for offset in 0..x
OpFX55Exclusive(m, x) ==
    IF x = 0 THEN Done(m) ELSE StoreRegs(Done(m), 0, x - 1)

OpFX55(m, x) == StoreRegs(Done(m), 0, x)

\* 0xFX65 - Load into V0 - VX from memory: for offset in 0..=x
RECURSIVE LoadRegs(_, _, _)
LoadRegs(r, offset, x) ==
    IF offset > x \/ r.ret # OkRet THEN r
    ELSE IF ~BInBounds(r.m.memory, r.m.index_register + offset)
         THEN Fail(r.m, Panic)
    ELSE LoadRegs(Done(SetV(r.m, offset,
                            BAt(r.m.memory, r.m.index_register + offset))),
                  offset + 1, x)

OpFX65(m, x) == LoadRegs(Done(m), 0, x)

----------------------------------------------------------------------------
(* handle_superchip_opcode *)

\* 0x00FB - Scroll display 4 pixels right: the byte at (row, col) takes the
\* low nibble of its left neighbour as its high nibble
ScrollRight4Byte(g, i) ==
    IF i >= 256 THEN BAt(g, i)
    ELSE IF i % 8 = 0 THEN Shr(BAt(g, i), 4)
    ELSE BitOr(Shr(BAt(g, i), 4), Shl8(BitAnd(BAt(g, i - 1), 15), 4))

ScrollRight4(g) ==
    [len |-> g.len,
     nz |-> [a \in {i \in 0..(g.len - 1) : ScrollRight4Byte(g, i) # 0} |->
                ScrollRight4Byte(g, a)]]

handle_superchip_opcode(m, opc, x, y, n, nn, nnn) ==
    IF opc \in 192..207                       \* 0x00C0..=0x00CF
    THEN Done([m EXCEPT !.gfx = BCat(Zeros(8 * n), m.gfx)])
    ELSE IF opc = 251                         \* 0x00FB
    THEN Done([m EXCEPT !.gfx = ScrollRight4(m.gfx)])
    ELSE IF opc = 253                         \* 0x00FD
    THEN Fail(m, ProgramExited)
    ELSE IF opc = 254                         \* 0x00FE
    THEN Done(m)
    ELSE IF opc = 255                         \* 0x00FF
    THEN Done(m)
    ELSE IF BitAnd(opc, 61695) = 61557        \* opcode & 0xF0FF == 0xF075
    THEN IF x > 7 THEN Fail(m, InvalidRegisterReference)
         ELSE Done([m EXCEPT !.rpl =
                      [i \in 1..Len(m.rpl) |->
                          IF i <= x + 1 THEN m.registers[i] ELSE m.rpl[i]]])
    \* the arm commented 0xFX85 repeats the guard 0xF075 and is never taken
    ELSE Fail(m, UnknownOpcode(opc))

----------------------------------------------------------------------------
(* emulate_cycle: fetch, advance, decode, dispatch. rnd is the byte the     *)
(* random generator yields if the opcode draws one; checks tells whether   *)
(* the build checks integer overflow.                                      *)

\* a default arm that enters the SUPER-CHIP handlers whatever the quirk
DefaultArmUngated(m, opc, x, y, n, nn, nnn) ==
    handle_superchip_opcode(m, opc, x, y, n, nn, nnn)

\* the default arm of the match: opcode => { ... }
DefaultArm(m, opc, x, y, n, nn, nnn) ==
    IF m.quirks.superchip_opcodes
    THEN handle_superchip_opcode(m, opc, x, y, n, nn, nnn)
    ELSE Fail(m, UnknownOpcode(m.opcode))

Dispatch(m, rnd, checks) ==
    LET opc == m.opcode
        x   == BitAnd(opc, 3840) \div 256     \* (opcode & 0x0F00) >> 8
        y   == BitAnd(opc, 240) \div 16       \* (opcode & 0x00F0) >> 4
        n   == BitAnd(opc, 15)                \* opcode & 0x000F
        nn  == BitAnd(opc, 255)               \* opcode & 0x00FF
        nnn == BitAnd(opc, 4095)              \* opcode & 0x0FFF
        fx  == BitAnd(opc, 61695)             \* opcode & 0xF0FF
    IN  CASE opc = 224 -> Op00E0(m)                          \* 0x00E0
          [] opc = 238 -> Op00EE(m)                          \* 0x00EE
          [] opc \in 4096..8191 -> Op1NNN(m, nnn)            \* 0x1000..=0x1FFF
          [] opc \in 8192..12287 -> Op2NNN(m, nnn)           \* 0x2000..=0x2FFF
          [] opc \in 12288..16383 -> Op3XNN(m, x, nn)        \* 0x3000..=0x3FFF
          [] opc \in 16384..20479 -> Op4XNN(m, x, nn)        \* 0x4000..=0x4FFF
          [] opc \in 20480..24560 -> Op5XY0(m, x, y)         \* 0x5000..=0x5FF0
          [] opc \in 24576..28671 -> Op6XNN(m, x, nn)        \* 0x6000..=0x6FFF
          [] opc \in 28672..32767 -> Op7XNN(m, x, nn)        \* 0x7000..=0x7FFF
          [] opc \in 32768..36863 -> Op8XYN(m, x, y, n)      \* 0x8000..=0x8FFF
          [] opc \in 36864..40944 -> Op9XY0(m, x, y)         \* 0x9000..=0x9FF0
          [] opc \in 40960..45055 -> OpANNN(m, nnn)          \* 0xA000..=0xAFFF
          [] opc \in 45056..49151 -> OpBNNN(m, nnn)          \* 0xB000..=0xBFFF
          [] opc \in 49152..53247 -> OpCXNN(m, x, nn, rnd)   \* 0xC000..=0xCFFF
          [] opc \in 53248..57343 -> OpDXYN(m, x, y, n, checks) \* 0xD000..=0xDFFF
          [] fx = 57502 -> OpEX9E(m, x)                      \* 0xE09E
          [] fx = 57505 -> OpEXA1(m, x)                      \* 0xE0A1
          [] fx = 61447 -> OpFX07(m, x)                      \* 0xF007
          [] fx = 61461 -> OpFX15(m, x)                      \* 0xF015
          [] fx = 61464 -> OpFX18(m, x)                      \* 0xF018
          [] fx = 61470 -> OpFX1E(m, x)                      \* 0xF01E
          [] fx = 61450 -> OpFX0A(m, x)                      \* 0xF00A
          [] fx = 61481 -> OpFX29(m, x)                      \* 0xF029
          [] fx = 61491 -> OpFX33(m, x)                      \* 0xF033
          [] fx = 61525 -> OpFX55(m, x)                      \* 0xF055
          [] fx = 61541 -> OpFX65(m, x)                      \* 0xF065
          [] OTHER -> DefaultArm(m, opc, x, y, n, nn, nnn)

\* the opcode at the program counter: (first_byte << 8) | second_byte
Fetched(m) ==
    BAt(m.memory, m.program_counter) * 256 + BAt(m.memory, m.program_counter + 1)

emulate_cycle(m, rnd, checks) ==
    IF ~BInBounds(m.memory, m.program_counter) THEN Fail(m, Panic)
    ELSE IF ~BInBounds(m.memory, m.program_counter + 1) THEN Fail(m, Panic)
    ELSE Dispatch([m EXCEPT !.opcode = Fetched(m),
                            !.program_counter = m.program_counter + 2],
                  rnd, checks)

\* the values rand::thread_rng().gen_range(0..=255) can yield; only the
\* CXNN handler draws one
RandomBytes(m) ==
    IF BInBounds(m.memory, m.program_counter + 1)
       /\ Fetched(m) \in 49152..53247
    THEN 0..255 ELSE {0}

\* the builds that differ on this cycle: only the DXYN handler can overflow
OverflowChecks(m) ==
    IF BInBounds(m.memory, m.program_counter + 1)
       /\ Fetched(m) \in 53248..57343
    THEN BOOLEAN ELSE {TRUE}

----------------------------------------------------------------------------
(* The ROM files the host can load. W(a, b, c, d) is the opcode 0xabcd.     *)

W(a, b, c, d) == ((a * 16 + b) * 16 + c) * 16 + d

\* the bytes of a program, high byte of each opcode first
Bytes(ws) ==
    FromSeq([i \in 1..(2 * Len(ws)) |->
        IF i % 2 = 1 THEN ws[(i + 1) \div 2] \div 256 ELSE ws[i \div 2] % 256])

\* unbounded recursion: 0x200 calls 0x200
RomRecurse == << W(2,2,0,0) >>

\* nested calls and returns
RomCalls ==
    << W(2,2,0,4),      \* 200: call 204
       W(1,2,0,2),      \* 202: jump 202
       W(2,2,0,8),      \* 204: call 208
       W(0,0,14,14),    \* 206: return
       W(0,0,14,14) >>  \* 208: return

\* a return with no call
RomRet == << W(0,0,14,14) >>

\* key wait and key skips
RomKeys ==
    << W(15,3,0,10),    \* 200: V3 = wait key
       W(14,3,9,14),    \* 202: skip if key V3 pressed
       W(1,2,0,8),      \* 204: jump 208
       W(1,2,0,0),      \* 206: jump 200
       W(14,3,10,1),    \* 208: skip if key V3 not pressed
       W(1,2,0,0),      \* 20A: jump 200
       W(1,2,0,0) >>    \* 20C: jump 200

\* a sprite left on the screen, then the same sprite drawn twice elsewhere
RomDraw ==
    << W(10,0,5,5),     \* 200: I = 0x055 (glyph 1)
       W(13,0,1,5),     \* 202: draw 5 rows at (V0, V1) = (0, 0)
       W(12,0,3,9),     \* 204: V0 = random & 0x39
       W(12,1,1,12),    \* 206: V1 = random & 0x1C
       W(13,0,1,5),     \* 208: draw
       W(13,0,1,5),     \* 20A: draw again
       W(1,2,0,12) >>   \* 20C: jump 20C

\* arithmetic, skips, index register, memory transfers, rejected opcodes
RomMisc ==
    << W(12,0,0,1),     \* 200: V0 = random & 1
       W(6,1,0,2),      \* 202: V1 = 2
       W(3,0,0,1),      \* 204: skip if V0 == 1
       W(7,1,0,1),      \* 206: V1 += 1
       W(4,0,0,0),      \* 208: skip if V0 != 0
       W(8,0,1,4),      \* 20A: V0 += V1
       W(5,0,1,0),      \* 20C: skip if V0 == V1
       W(9,0,1,0),      \* 20E: skip if V0 != V1
       W(10,3,0,0),     \* 210: I = 0x300
       W(15,1,1,14),    \* 212: I += V1
       W(15,0,3,3),     \* 214: BCD of V0 at I
       W(15,1,5,5),     \* 216: store V0..V1 at I
       W(15,1,6,5),     \* 218: load V0..V1 from I
       W(15,0,2,9),     \* 21A: I = glyph of V0
       W(6,2,2,0),      \* 21C: V2 = 0x20
       W(15,2,2,9),     \* 21E: I = glyph of V2: InvalidValueInRegister
       W(0,0,14,0),     \* 220: clear screen
       W(0,0,0,1),      \* 222: unknown
       W(8,0,1,8),      \* 224: unknown 8XY8
       W(5,15,15,1),    \* 226: unknown 5FF1
       W(5,0,1,1),      \* 228: 5011
       W(9,15,15,15),   \* 22A: unknown 9FFF
       W(14,0,15,15),   \* 22C: unknown E0FF
       W(15,0,15,15),   \* 22E: unknown F0FF
       W(1,2,3,0) >>    \* 230: jump 230

\* the timers
RomTimers ==
    << W(6,0,0,2),      \* 200: V0 = 2
       W(15,0,1,5),     \* 202: delay = V0
       W(15,0,1,8),     \* 204: sound = V0
       W(15,1,0,7),     \* 206: V1 = delay
       W(1,2,0,6) >>    \* 208: jump 206

\* a jump with offset to an odd address
RomOffsetJump ==
    << W(6,0,0,1),      \* 200: V0 = 1
       W(11,2,0,4),     \* 202: jump 204 + V0
       W(1,2,0,4),      \* 204: jump 204
       W(1,2,0,6),      \* 206: jump 206
       W(0,0,1,2),      \* 208: (209: 0x120C, jump 20C)
       W(0,12,0,0),     \* 20A
       W(1,2,0,12) >>   \* 20C: jump 20C

\* execution and memory writes at the end of memory
RomEdge ==
    << W(10,15,15,15),  \* 200: I = 0xFFF
       W(12,0,0,1),     \* 202: V0 = random & 1
       W(3,0,0,0),      \* 204: skip if V0 == 0
       W(15,0,3,3),     \* 206: BCD of V0 at I
       W(1,15,15,12) >> \* 208: jump FFC

\* a one-row sprite whose only pixel falls in the spill-over byte, drawn twice
RomSpill ==
    << W(10,0,5,5),     \* 200: I = 0x055 (glyph 1, first row 0x20)
       W(6,0,0,6),      \* 202: V0 = 6
       W(13,0,1,1),     \* 204: draw 1 row at (6, 0): the pixel is at column 8
       W(13,0,1,1),     \* 206: draw again
       W(1,2,0,8) >>    \* 208: jump 208

\* additions, subtractions, shifts and index additions with their flags
RomArith ==
    << W(12,0,8,1),     \* 200: V0 = random & 0x81
       W(6,1,15,15),    \* 202: V1 = 0xFF
       W(8,0,1,4),      \* 204: V0 += V1
       W(8,0,1,5),      \* 206: V0 -= V1
       W(8,0,1,7),      \* 208: V0 = V1 - V0
       W(8,0,1,6),      \* 20A: V0 = V1 >> 1
       W(8,0,1,14),     \* 20C: V0 = V1 << 1
       W(8,15,1,4),     \* 20E: VF += V1
       W(8,15,1,6),     \* 210: VF = V1 >> 1
       W(8,0,15,5),     \* 212: V0 -= VF
       W(10,15,15,15),  \* 214: I = 0xFFF
       W(6,0,0,2),      \* 216: V0 = 2
       W(15,0,1,14),    \* 218: I += V0
       W(15,15,1,14),   \* 21A: I += VF
       W(1,2,1,12) >>   \* 21C: jump 21C

\* the SUPER-CHIP opcodes
RomSchip ==
    << W(10,0,5,5),     \* 200: I = 0x055
       W(13,0,1,5),     \* 202: draw glyph 1
       W(0,0,12,1),     \* 204: 00C1
       W(0,0,15,11),    \* 206: 00FB
       W(0,0,15,13),    \* 208: 00FD
       W(0,0,15,14),    \* 20A: 00FE
       W(0,0,15,15),    \* 20C: 00FF
       W(15,1,7,5),     \* 20E: F175
       W(15,1,8,5),     \* 210: F185
       W(1,2,1,2) >>    \* 212: jump 212

\* a file one byte larger than the largest the loader's arithmetic allows
RomOversize == Zeros(4096 - 511 + 1)

RomFiles ==
    [ recurse  |-> Bytes(RomRecurse),
      calls    |-> Bytes(RomCalls),
      ret      |-> Bytes(RomRet),
      keys     |-> Bytes(RomKeys),
      draw     |-> Bytes(RomDraw),
      misc     |-> Bytes(RomMisc),
      timers   |-> Bytes(RomTimers),
      offset   |-> Bytes(RomOffsetJump),
      edge     |-> Bytes(RomEdge),
      spill    |-> Bytes(RomSpill),
      arith    |-> Bytes(RomArith),
      schip    |-> Bytes(RomSchip),
      oversize |-> RomOversize ]

\* the paths given to load_rom_from_file; "missing" names no readable file
Paths == DOMAIN RomFiles \cup {"missing"}

\* fs::read(file_path)
fs_read(file_path) ==
    IF file_path \in DOMAIN RomFiles
    THEN [ok |-> TRUE, bytes |-> RomFiles[file_path]]
    ELSE [ok |-> FALSE, bytes |-> Zeros(0)]

\* the key codes the host passes to press and release
KeyCodes == 0..MaxKey \cup {16}

----------------------------------------------------------------------------
(* load_rom_from_file, the timers and the keypad.                          *)

\* a low memory with the font table at 0x000
LowMemoryFontFirst == BCat(font, Zeros(512 - 80))

\* self.memory after the first three appends
LowMemory == BCat(BCat(Zeros(80), font), Zeros(512 - 160))

\* self.memory after the five appends; the last one has 4096 - length - 511
\* bytes
LoadedMemory(bytes) ==
    BCat(BCat(LowMemory, bytes), Zeros(4096 - BLen(bytes) - 511))

\* LoadedMemory of each ROM file, computed once
LoadedMemoryOf ==
    [file_path \in DOMAIN RomFiles |-> LoadedMemory(RomFiles[file_path])]

\* a loader that resets the machine before it looks at the outcome of the read
load_rom_from_fileResetsFirst(m, file_path) ==
    LET read == fs_read(file_path)
        m1 == reset(m)
    IN  IF read.ok
        THEN IF 4096 - BLen(read.bytes) - 511 < 0
             THEN Fail([m1 EXCEPT !.memory = BCat(LowMemory, read.bytes)], Panic)
             ELSE Done([m1 EXCEPT !.memory = LoadedMemoryOf[file_path]])
        ELSE Fail(m1, FileError(file_path))

\* fs::read(file_path) gives [ok |-> TRUE, bytes |-> ...] or [ok |-> FALSE]
load_rom_from_file(m, file_path) ==
    LET read == fs_read(file_path)
    IN  IF read.ok
        THEN LET m1 == reset(m)
             IN  IF 4096 - BLen(read.bytes) - 511 < 0
                 \* usize underflow: a panic, or an allocation that cannot
                 \* succeed; the four appends before it have happened
                 THEN Fail([m1 EXCEPT !.memory = BCat(LowMemory, read.bytes)],
                           Panic)
                 ELSE Done([m1 EXCEPT !.memory = LoadedMemoryOf[file_path]])
        ELSE Fail(m, FileError(file_path))

update_delay_timer(m) ==
    IF m.delay_timer > 0
    THEN [m |-> [m EXCEPT !.delay_timer = m.delay_timer - 1], ret |-> UnitRet]
    ELSE [m |-> m, ret |-> UnitRet]

\* a sound tick that decrements without testing for zero
update_sound_timerWraps(m) ==
    [m |-> [m EXCEPT !.sound_timer = (m.sound_timer - 1) % 256],
     ret |-> BoolRet(m.sound_timer > 0)]

update_sound_timer(m) ==
    IF m.sound_timer > 0
    THEN [m |-> [m EXCEPT !.sound_timer = m.sound_timer - 1], ret |-> BoolRet(TRUE)]
    ELSE [m |-> m, ret |-> BoolRet(FALSE)]

press(m, key) ==
    IF key \in 0..15
    THEN Done([m EXCEPT !.keys = Put(m.keys, key, TRUE)])
    ELSE Fail(m, InvalidKeycode)

\* a release that copies the assignment of press
releaseSetsKey(m, key) ==
    IF key \in 0..15
    THEN Done([m EXCEPT !.keys = Put(m.keys, key, TRUE)])
    ELSE Fail(m, InvalidKeycode)

release(m, key) ==
    IF key \in 0..15
    THEN Done([m EXCEPT !.keys = Put(m.keys, key, FALSE)])
    ELSE Fail(m, InvalidKeycode)

----------------------------------------------------------------------------
(* Vocabulary of the properties: the opcode fields and the instruction set *)
(* as the specification's table gives them.                                *)

Top(f) == f \div 4096
FieldX(f) == (f \div 256) % 16
FieldY(f) == (f \div 16) % 16
FieldN(f) == f % 16
FieldNN(f) == f % 256

\* a cycle can fetch: the process is alive and both opcode bytes are in memory
CanFetch == ~panicked /\ BInBounds(memory, program_counter + 1)

\* every outcome emulate_cycle can have in the current state
CycleOutcomes ==
    { emulate_cycle(Machine, rnd, checks) :
        rnd \in RandomBytes(Machine), checks \in OverflowChecks(Machine) }

\* the opcodes of the CHIP-8 instruction table
IsChip8(f) ==
    \/ f \in {224, 238}
    \/ Top(f) \in {1, 2, 3, 4, 6, 7, 10, 11, 12, 13}
    \/ Top(f) \in {5, 9} /\ FieldN(f) = 0
    \/ Top(f) = 8 /\ FieldN(f) \in (0..7) \cup {14}
    \/ Top(f) = 14 /\ FieldNN(f) \in {158, 161}
    \/ Top(f) = 15 /\ FieldNN(f) \in {7, 10, 21, 24, 30, 41, 51, 85, 101}

\* 00E0, 6XNN, 7XNN, 8XYN, ANNN, CXNN, DXYN, FX07, FX15, FX18, FX1E, FX29,
\* FX33, FX55, FX65
IsStraight(f) ==
    \/ f = 224
    \/ Top(f) \in {6, 7, 10, 12, 13}
    \/ Top(f) = 8 /\ FieldN(f) \in (0..7) \cup {14}
    \/ Top(f) = 15 /\ FieldNN(f) \in {7, 21, 24, 30, 41, 51, 85, 101}

\* 3XNN, 4XNN, 5XY0, 9XY0, EX9E, EXA1
IsSkip(f) ==
    \/ Top(f) \in {3, 4}
    \/ Top(f) \in {5, 9} /\ FieldN(f) = 0
    \/ Top(f) = 14 /\ FieldNN(f) \in {158, 161}

\* the condition of skip opcode f in the current state
SkipCondition(f) ==
    LET vx == registers[FieldX(f) + 1]
        vy == registers[FieldY(f) + 1]
    IN  CASE Top(f) = 3 -> vx = FieldNN(f)
          [] Top(f) = 4 -> vx # FieldNN(f)
          [] Top(f) = 5 -> vx = vy
          [] Top(f) = 9 -> vx # vy
          [] Top(f) = 14 /\ FieldNN(f) = 158 -> keys[(vx % 16) + 1]
          [] Top(f) = 14 /\ FieldNN(f) = 161 -> ~keys[(vx % 16) + 1]
          [] OTHER -> FALSE

\* FX0A is at the program counter and about to be fetched
KeyWaiting == CanFetch /\ Top(Fetched(Machine)) = 15 /\ FieldNN(Fetched(Machine)) = 10

AnyKeyPressed == \E k \in 0..15 : keys[k + 1]

----------------------------------------------------------------------------
(* The state machine: one action per public operation of Chip8Emu.         *)

Init ==
    /\ opcode = Chip8EmuDefault.opcode
    /\ memory = Chip8EmuDefault.memory
    /\ registers = Chip8EmuDefault.registers
    /\ index_register = Chip8EmuDefault.index_register
    /\ program_counter = Chip8EmuDefault.program_counter
    /\ gfx = Chip8EmuDefault.gfx
    /\ delay_timer = Chip8EmuDefault.delay_timer
    /\ sound_timer = Chip8EmuDefault.sound_timer
    /\ stack = Chip8EmuDefault.stack
    /\ stack_pointer = Chip8EmuDefault.stack_pointer
    /\ keys = Chip8EmuDefault.keys
    /\ quirks = Chip8EmuDefault.quirks
    /\ rpl = Chip8EmuDefault.rpl
    /\ is_hi_res_mode = Chip8EmuDefault.is_hi_res_mode
    /\ panicked = FALSE
    /\ running = FALSE
    /\ filenames = << >>
    /\ selected_file = 0
    /\ is_focused = FALSE

\* the call leaves the machine out.m; out.ret is what it returns
Call(out) ==
    /\ SetMachine(out.m)
    /\ panicked' = (out.ret = Panic)
    /\ UNCHANGED <<running, selector>>

LoadRomFromFile ==
    /\ ~panicked
    /\ \E file_path \in Paths :
          \E out \in {load_rom_from_file(Machine, file_path)} : Call(out)

EmulateCycle ==
    /\ ~panicked
    /\ \E rnd \in RandomBytes(Machine), checks \in OverflowChecks(Machine) :
          \E out \in {emulate_cycle(Machine, rnd, checks)} : Call(out)

Press ==
    /\ ~panicked
    /\ \E key \in KeyCodes : \E out \in {press(Machine, key)} : Call(out)

Release ==
    /\ ~panicked
    /\ \E key \in KeyCodes : \E out \in {release(Machine, key)} : Call(out)

UpdateDelayTimer ==
    /\ ~panicked
    /\ \E out \in {update_delay_timer(Machine)} : Call(out)

UpdateSoundTimer ==
    /\ ~panicked
    /\ \E out \in {update_sound_timer(Machine)} : Call(out)

Next ==
    \/ LoadRomFromFile
    \/ EmulateCycle
    \/ Press
    \/ Release
    \/ UpdateDelayTimer
    \/ UpdateSoundTimer

Spec == Init /\ [][Next]_vars

----------------------------------------------------------------------------
(* The host loop of src/src/app.rs (App::run): the actions that reach the  *)
(* engine.                                                                 *)

\* get_opcodes(): the bytes of memory[512..] paired big-endian, entry i (from
\* 0) being the word at 0x200 + 2i; tuples() drops a last byte left unpaired
get_opcodes(m) ==
    [i \in 1..((BLen(m.memory) - 512) \div 2) |->
        BAt(m.memory, 510 + 2 * i) * 256 + BAt(m.memory, 511 + 2 * i)]

\* the argument of Action::SelectOpcode: get_program_counter() - 512 on a
\* u16, which panics under overflow checks and wraps otherwise when the
\* program counter is below 512
SelectOpcode(m, checks) ==
    IF m.program_counter >= 512
    THEN [ok |-> TRUE, i |-> m.program_counter - 512]
    ELSE IF checks THEN [ok |-> FALSE, i |-> 0]
    ELSE [ok |-> TRUE, i |-> m.program_counter - 512 + 65536]

\* a Tick that releases every key once the cycle has run
TickReleasesKeys(m, rnd, checks, due) ==
    LET c == emulate_cycle(m, rnd, checks)
        c1 == [c EXCEPT !.m.keys = Fill(FALSE, 16)]
    IN  IF c.ret = Panic THEN c
        ELSE IF ~SelectOpcode(c.m, checks).ok THEN Fail(c.m, Panic)
        ELSE IF due
             THEN [m |-> update_sound_timer(update_delay_timer(c1.m).m).m,
                   ret |-> c.ret]
             ELSE c1

\* Action::Tick while running: one cycle, then SelectOpcode(pc - 512), then
\* both timer updates when more than 16 ms have passed (due). The result is
\* what the cycle returned (an error is sent on as Action::Error), or Panic.
Tick(m, rnd, checks, due) ==
    LET c == emulate_cycle(m, rnd, checks)
    IN  IF c.ret = Panic THEN c
        ELSE IF ~SelectOpcode(c.m, checks).ok THEN Fail(c.m, Panic)
        ELSE IF due
             THEN [m |-> update_sound_timer(update_delay_timer(c.m).m).m,
                   ret |-> c.ret]
             ELSE c

ActionTick ==
    /\ ~panicked
    /\ running
    /\ \E rnd \in RandomBytes(Machine), checks \in BOOLEAN, due \in BOOLEAN :
          \E out \in {Tick(Machine, rnd, checks, due)} :
              /\ SetMachine(out.m)
              /\ panicked' = (out.ret = Panic)
              /\ UNCHANGED <<running, selector>>

ActionStartEmulation ==
    /\ ~panicked
    /\ running' = TRUE
    /\ UNCHANGED <<emu, panicked, selector>>

ActionStopEmulation ==
    /\ ~panicked
    /\ running' = FALSE
    /\ UNCHANGED <<emu, panicked, selector>>

\* a key of KEYBOARD: press(get_key_from_char(..)); the error is only logged
EventKey ==
    /\ ~panicked
    /\ \E key \in 0..MaxKey :
          \E out \in {press(Machine, key)} :
              /\ SetMachine(out.m)
              /\ UNCHANGED <<panicked, running, selector>>

\* Action::LoadFile: load_rom_from_file(..).expect("Can read file")
ActionLoadFile ==
    /\ ~panicked
    /\ \E file_path \in Paths :
          \E out \in {load_rom_from_file(Machine, file_path)} :
              /\ SetMachine(out.m)
              /\ panicked' = (out.ret # OkRet)
              /\ UNCHANGED <<running, selector>>

HostNext ==
    \/ ActionTick
    \/ ActionStartEmulation
    \/ ActionStopEmulation
    \/ EventKey
    \/ ActionLoadFile

HostSpec == Init /\ [][HostNext]_vars

----------------------------------------------------------------------------
(* The file selector of src/src/components/file_selector.rs                *)
(* (FileSelector::update and the directory listing of FileSelector::draw). *)

\* the largest usize, as far as the integers of the model reach: all that
\* matters of it is that it is above the length of every listing
UsizeMax == 2147483647

FileSelector ==
    [ filenames |-> filenames, selected_file |-> selected_file,
      is_focused |-> is_focused ]

SetSelector(s) ==
    /\ filenames' = s.filenames
    /\ selected_file' = s.selected_file
    /\ is_focused' = s.is_focused

\* what update returns: Ok(None), or Ok(Some(Action::LoadFile(name)))
NoAction == <<"None">>
LoadFile(name) == <<"LoadFile", name>>

\* the listings fs::read_dir("./scripts/") gives
DirListings == { << >>, <<"timers">>, <<"ret", "keys", "oversize">> }

\* Action::MoveFileSelectorDown; filenames.len() - 1 on an empty list is a
\* usize underflow: a panic under overflow checks, a wrap otherwise
MoveFileSelectorDown(s, checks) ==
    IF s.selected_file # 0
    THEN [s |-> [s EXCEPT !.selected_file = s.selected_file - 1],
          ret |-> NoAction]
    ELSE IF Len(s.filenames) = 0
         THEN IF checks THEN [s |-> s, ret |-> Panic]
              ELSE [s |-> [s EXCEPT !.selected_file = UsizeMax], ret |-> NoAction]
         ELSE [s |-> [s EXCEPT !.selected_file = Len(s.filenames) - 1],
               ret |-> NoAction]

\* Action::MoveFileSelectorUp
MoveFileSelectorUp(s) ==
    [s |-> [s EXCEPT !.selected_file =
                IF s.selected_file >= Len(s.filenames) THEN 0
                ELSE s.selected_file + 1],
     ret |-> NoAction]

\* Action::SelectFile: filenames[selected_file] panics outside the list
SelectFile(s) ==
    LET s1 == [s EXCEPT !.is_focused = FALSE]
    IN  IF ~InBounds(s1.filenames, s1.selected_file)
        THEN [s |-> s1, ret |-> Panic]
        ELSE [s |-> s1, ret |-> LoadFile(At(s1.filenames, s1.selected_file))]

\* Action::FocusFileSelector
FocusFileSelector(s) == [s |-> [s EXCEPT !.is_focused = TRUE], ret |-> NoAction]

\* draw: filenames is cleared and filled with the listing of ./scripts/
draw(s, listing) == [s EXCEPT !.filenames = listing]

\* the selector is left as out.s; a panic ends the process
SelectorCall(out) ==
    /\ SetSelector(out.s)
    /\ panicked' = (out.ret = Panic)
    /\ UNCHANGED <<emu, running>>

ActionMoveFileSelectorDown ==
    /\ ~panicked
    /\ selected_file # UsizeMax - MaxWrapped
    /\ \E checks \in BOOLEAN :
          \E out \in {MoveFileSelectorDown(FileSelector, checks)} :
              SelectorCall(out)

ActionMoveFileSelectorUp ==
    /\ ~panicked
    /\ \E out \in {MoveFileSelectorUp(FileSelector)} : SelectorCall(out)

ActionFocusFileSelector ==
    /\ ~panicked
    /\ \E out \in {FocusFileSelector(FileSelector)} : SelectorCall(out)

\* Action::SelectFile, and Action::LoadFile(name) that the host then handles:
\* load_rom_from_file("./scripts/" + name).expect("Can read file")
ActionSelectFile ==
    /\ ~panicked
    /\ \E out \in {SelectFile(FileSelector)} :
          /\ SetSelector(out.s)
          /\ IF out.ret = Panic
             THEN /\ panicked' = TRUE
                  /\ UNCHANGED <<emu, running>>
             ELSE \E loaded \in {load_rom_from_file(Machine, out.ret[2])} :
                      /\ SetMachine(loaded.m)
                      /\ panicked' = (loaded.ret # OkRet)
                      /\ UNCHANGED running

\* Action::Render: the selector is drawn
ActionRender ==
    /\ ~panicked
    /\ \E listing \in DirListings :
          /\ SetSelector(draw(FileSelector, listing))
          /\ UNCHANGED <<emu, panicked, running>>

SelectorNext ==
    \/ ActionMoveFileSelectorDown
    \/ ActionMoveFileSelectorUp
    \/ ActionFocusFileSelector
    \/ ActionSelectFile
    \/ ActionRender

SelectorSpec == Init /\ [][SelectorNext]_vars

----------------------------------------------------------------------------
\* a cycle of the key wait
KeyWaitCycle == KeyWaiting /\ EmulateCycle

\* cycles keep being invoked: a cycle of the key wait that would change the
\* state is not postponed for ever
FairSpec == Spec /\ WF_vars(KeyWaitCycle)

----------------------------------------------------------------------------
(* C1: in every reachable state, a cycle that completes leaves the program *)
(* counter at its old value + 2 when the fetched opcode is one of 00E0,    *)
(* 6XNN, 7XNN, 8XYN, ANNN, CXNN, DXYN, FX07, FX15, FX18, FX1E, FX29, FX33, *)
(* FX55, FX65 or is rejected with an error (the return 00EE aside); a skip *)
(* opcode leaves it at + 4 when its condition holds and at + 2 otherwise.  *)
C1_ProgramCounterAdvance ==
    CanFetch =>
        \A out \in CycleOutcomes :
            LET f == Fetched(Machine)
                rejected == out.ret # OkRet /\ f # 238
            IN  out.ret # Panic =>
                  /\ (IsStraight(f) \/ rejected) =>
                        out.m.program_counter = program_counter + 2
                  /\ IsSkip(f) =>
                        out.m.program_counter =
                            program_counter + (IF SkipCondition(f) THEN 4 ELSE 2)

\* the skip 3001 at 0x204 has been taken with V0 = 1: the counter is at 0x208
C1_Witness ==
    /\ ~panicked
    /\ opcode = W(3,0,0,1)
    /\ registers[1] = 1
    /\ program_counter = 520

(* C2: with SUPER-CHIP opcodes disabled, a cycle that fetches an opcode    *)
(* that is no CHIP-8 instruction returns UnknownOpcode carrying the        *)
(* fetched value and changes nothing but the program counter (advanced by  *)
(* 2) and the record of the fetched opcode.                                *)
C2_UnknownOpcodeRejected ==
    (CanFetch /\ ~quirks.superchip_opcodes /\ ~IsChip8(Fetched(Machine))) =>
        \A out \in CycleOutcomes :
            /\ out.ret = UnknownOpcode(Fetched(Machine))
            /\ out.m = [Machine EXCEPT !.opcode = Fetched(Machine),
                                       !.program_counter = program_counter + 2]

----------------------------------------------------------------------------
\* one cycle on FX0A: it rewinds while no key is pressed, else it stores the
\* lowest pressed key in VX and goes on
KeyWaitStep ==
    KeyWaiting =>
        \A out \in CycleOutcomes :
            LET x == FieldX(Fetched(Machine))
            IN  /\ out.ret = OkRet
                /\ ~AnyKeyPressed =>
                      /\ out.m.program_counter = program_counter
                      /\ out.m.registers = registers
                /\ AnyKeyPressed =>
                      /\ out.m.program_counter = program_counter + 2
                      /\ \E k \in 0..15 :
                            /\ keys[k + 1]
                            /\ \A j \in 0..15 : keys[j + 1] => k <= j
                            /\ out.m.registers[x + 1] = k

(* C3: while no key is pressed every cycle on FX0A leaves the program      *)
(* counter and VX as they were; with a key pressed the cycle stores the    *)
(* lowest pressed key in VX and ends 2 past the FX0A; and when cycles keep *)
(* being invoked the machine does not stay for ever on an FX0A with a key  *)
(* held down.                                                              *)
C3_KeyWait == [] KeyWaitStep /\ []<>~(KeyWaiting /\ AnyKeyPressed)

\* the wait at 0x200 ended with key 1 the only key pressed
C3_Witness ==
    /\ ~panicked
    /\ opcode = W(15,3,0,10)
    /\ program_counter = 514
    /\ keys[2] /\ ~keys[1]
    /\ registers[4] = 1

(* C4: the call stack holds 16 nested calls: a 2NNN executed with fewer    *)
(* than 16 calls pending succeeds and stores its return address in the     *)
(* stack, and the stack pointer always designates one of the 16 slots.     *)
C4_StackCapacity ==
    /\ stack_pointer \in 0..15
    /\ (CanFetch /\ Top(Fetched(Machine)) = 2 /\ stack_pointer < 16) =>
          \A out \in CycleOutcomes :
              /\ out.ret = OkRet
              /\ \E i \in 1..Len(out.m.stack) :
                    out.m.stack[i] = program_counter + 2

(* C5: 00EE executed with the stack pointer at 0 returns                   *)
(* NoSubroutineToExit and leaves the stack pointer at 0, with the program  *)
(* counter overwritten by stack slot 0 and not left after the 00EE.        *)
C5_ReturnOnEmptyStack ==
    (CanFetch /\ Fetched(Machine) = 238 /\ stack_pointer = 0) =>
        \A out \in CycleOutcomes :
            /\ out.ret = NoSubroutineToExit
            /\ out.m.stack_pointer = 0
            /\ out.m.program_counter = stack[1]
            /\ out.m.program_counter # program_counter + 2

\* a 00EE has executed on the empty stack
C5_Witness ==
    /\ ~panicked
    /\ opcode = 238
    /\ stack_pointer = 0
    /\ program_counter = 0

(* C6: no cycle aborts: whatever ROM is loaded and whatever cycles ran,    *)
(* every memory access of the next cycle is inside the memory array and    *)
(* the cycle returns Ok or a typed error.                                  *)
C6_CycleNeverAborts ==
    ~panicked => \A out \in CycleOutcomes : out.ret # Panic

\* the indexes of the non-zero bytes of a byte image
NonZeroAt(v) == DOMAIN v.nz

\* memory image mem holds the ROM bytes at 0x200, the font table at 0x050
\* and zero in every other byte
HoldsRom(mem, bytes) ==
    /\ \A i \in 0..(BLen(bytes) - 1) : BAt(mem, 512 + i) = BAt(bytes, i)
    /\ \A a \in 80..159 : BAt(mem, a) = BAt(font, a - 80)
    /\ NonZeroAt(mem) \subseteq (80..159) \cup (512..(511 + BLen(bytes)))

\* the ROM files of at most 3584 bytes
SmallRoms == {file_path \in DOMAIN RomFiles : BLen(RomFiles[file_path]) <= 3584}

\* the five appends lay every such ROM file out as HoldsRom says
LayoutRight ==
    \A file_path \in SmallRoms :
        HoldsRom(LoadedMemory(RomFiles[file_path]), RomFiles[file_path])

(* C7: a load of an N-byte ROM, N <= 3584, succeeds and leaves ROM byte i  *)
(* at memory 0x200 + i, the font table at 0x050..0x09F and zero in every   *)
(* other byte: from every state the load succeeds and leaves in memory the *)
(* image of the five appends, and that image has this layout.              *)
C7_LoaderRoundTrip ==
    ~panicked =>
        /\ LayoutRight
        /\ \A file_path \in SmallRoms :
              LET out == load_rom_from_file(Machine, file_path)
              IN  /\ out.ret = OkRet
                  /\ out.m.memory = LoadedMemory(RomFiles[file_path])

\* the two-byte ROM 22 00 has just been loaded
C7_Witness ==
    /\ ~panicked
    /\ opcode = 0
    /\ program_counter = 512
    /\ BAt(memory, 512) = 34 /\ BAt(memory, 513) = 0
    /\ BAt(memory, 80) = 240 /\ BAt(memory, 159) = 128
    /\ NonZeroAt(memory) = (80..159) \cup {512}

(* C8: memory holds exactly 4096 bytes in every reachable state.           *)
C8_MemorySize == BLen(memory) = 4096

\* each ROM loaded into a machine fresh from construction
FreshlyLoaded ==
    [file_path \in DOMAIN RomFiles |->
        load_rom_from_file(Chip8EmuDefault, file_path)]

(* C9: a successful load leaves a state that depends on the ROM alone: the *)
(* machine, whatever state it was in, ends in the state a fresh machine    *)
(* ends in, with V0..VF, the index register, the stack, the stack pointer, *)
(* both timers and the framebuffer zero, the program counter 0x200 and     *)
(* all keys released.                                                      *)
C9_LoadReplacesAllState ==
    ~panicked =>
        \A file_path \in DOMAIN RomFiles :
            LET out == load_rom_from_file(Machine, file_path)
            IN  out.ret = OkRet =>
                  /\ out.m = FreshlyLoaded[file_path].m
                  /\ out.m.registers = Fill(0, 16)
                  /\ out.m.index_register = 0
                  /\ out.m.program_counter = 512
                  /\ out.m.stack = Fill(0, 16)
                  /\ out.m.stack_pointer = 0
                  /\ out.m.delay_timer = 0
                  /\ out.m.sound_timer = 0
                  /\ out.m.keys = Fill(FALSE, 16)
                  /\ NonZeroAt(out.m.gfx) = {}

\* a machine with a key down, a running timer and registers set, on which a
\* load gives the state of a fresh machine
C9_Witness ==
    /\ ~panicked
    /\ keys[1]
    /\ delay_timer > 0
    /\ registers[1] # 0
    /\ load_rom_from_file(Machine, "draw").m = FreshlyLoaded["draw"].m

(* C10: drawing the same sprite twice in a row with the same registers,    *)
(* index and sprite bytes, for every N in 1..15, leaves the framebuffer    *)
(* as it was before the first draw.                                        *)
C10_DrawTwiceRestores ==
    (CanFetch /\ Top(Fetched(Machine)) = 13) =>
        \A n \in 1..15, checks \in BOOLEAN :
            LET f == Fetched(Machine)
                x == FieldX(f)
                y == FieldY(f)
                m0 == [Machine EXCEPT !.opcode = f,
                                      !.program_counter = program_counter + 2]
                first == OpDXYN(m0, x, y, n, checks)
                second == OpDXYN(first.m, x, y, n, checks)
            IN  ( /\ first.ret = OkRet
                  /\ second.ret = OkRet
                  /\ first.m.registers[x + 1] = registers[x + 1]
                  /\ first.m.registers[y + 1] = registers[y + 1]
                  /\ first.m.index_register = index_register
                  /\ first.m.memory = memory ) =>
                second.m.gfx = gfx

\* the glyph drawn at (9, 4) twice is gone and the one drawn at (0, 0) before
\* is all that is on the screen
C10_Witness ==
    /\ ~panicked
    /\ opcode = W(13,0,1,5)
    /\ program_counter = 524
    /\ registers[1] = 9 /\ registers[2] = 4
    /\ NonZeroAt(gfx) = {0, 8, 16, 24, 32}
    /\ BAt(gfx, 0) = 32 /\ BAt(gfx, 32) = 112

----------------------------------------------------------------------------
\* some pixel that is set on the screen of m is set again by the N-row sprite
\* at I drawn at (VX, VY): in the first byte of a row or in its spill-over byte
DrawCollides(m, x, y, n) ==
    LET cx == V(m, x) % 64
        cy == V(m, y) % 32
        shift == cx % 8
    IN  \E row \in 0..(n - 1) :
            LET data == BAt(m.memory, m.index_register + row)
                idx == (cy * 8) + (cx \div 8) + (row * 8)
            IN  /\ idx <= 255
                /\ \/ BitAnd(BAt(m.gfx, idx), Shr(data, shift)) # 0
                   \/ /\ shift # 0
                      /\ cx < 56
                      /\ BitAnd(BAt(m.gfx, idx + 1), Shl8(data, 8 - shift)) # 0

(* C11: a DXYN that completes leaves VF = 1 whenever some pixel set before *)
(* the draw is set in the incoming shifted sprite data, the pixels of the  *)
(* spill-over byte included; so the second of two draws of the same        *)
(* non-empty sprite at the same place leaves VF = 1.                       *)
C11_CollisionFlag ==
    (CanFetch /\ Top(Fetched(Machine)) = 13) =>
        \A out \in CycleOutcomes :
            LET f == Fetched(Machine)
            IN  (out.ret = OkRet
                 /\ DrawCollides(Machine, FieldX(f), FieldY(f), FieldN(f))) =>
                    out.m.registers[16] = 1

----------------------------------------------------------------------------
\* register values at and around the carry, borrow and shifted-out limits
ByteSamples == {0, 1, 2, 127, 128, 129, 254, 255}

\* register numbers: two ordinary ones, the last ordinary one and VF
RegSamples == {0, 1, 14, 15}

\* the machine that has fetched opcode opc with VX = vx, then VY = vy
Fetching(opc, x, vx, y, vy) ==
    SetV(SetV([Machine EXCEPT !.opcode = opc,
                              !.program_counter = program_counter + 2],
              x, vx), y, vy)

\* m1 is m but for VX and VF
OnlyVXandVF(m, m1, x) ==
    /\ \A r \in 0..14 : r # x => V(m1, r) = V(m, r)
    /\ m1 = [m EXCEPT !.registers = m1.registers]

(* C12: for all X, Y (X = F and Y = F included) and register values,      *)
(* 8XY4 leaves VX = (VX + VY) mod 256 and VF = 1 iff the sum exceeds 255,  *)
(* 8XY5 leaves VX = (VX - VY) mod 256 and VF = 1 iff VX >= VY, 8XY7 leaves *)
(* VX = (VY - VX) mod 256 and VF = 1 iff VY >= VX; VF is written every     *)
(* time and holds the flag when X = F; nothing else changes. Checked for   *)
(* X, Y in RegSamples and the values in ByteSamples.                       *)
C12_ArithmeticFlags ==
    (CanFetch /\ Top(Fetched(Machine)) = 8 /\ FieldN(Fetched(Machine)) \in {4, 5, 7}) =>
        \A x \in RegSamples, y \in RegSamples,
           vx \in ByteSamples, vy \in ByteSamples :
            LET n == FieldN(Fetched(Machine))
                m0 == Fetching(W(8, x, y, n), x, vx, y, vy)
                a == V(m0, x)
                b == V(m0, y)
                out == Dispatch(m0, 0, TRUE)
                value == CASE n = 4 -> (a + b) % 256
                           [] n = 5 -> (a - b) % 256
                           [] n = 7 -> (b - a) % 256
                flag == CASE n = 4 -> a + b > 255
                          [] n = 5 -> a >= b
                          [] n = 7 -> b >= a
            IN  /\ out.ret = OkRet
                /\ V(out.m, 15) = (IF flag THEN 1 ELSE 0)
                /\ x # 15 => V(out.m, x) = value
                /\ OnlyVXandVF(m0, out.m, x)

\* 8014 with V0 = 0x81 and V1 = 0xFF has left V0 = 0x80 and VF = 1
C12_Witness ==
    /\ ~panicked
    /\ opcode = W(8,0,1,4)
    /\ program_counter = 518
    /\ registers[1] = 128 /\ registers[2] = 255 /\ registers[16] = 1

(* C13: for all X, Y and register values, 8XY6 leaves VX = VY >> 1 and    *)
(* VF = bit 0 of the old VY, 8XYE leaves VX = (VY << 1) mod 256 and VF =   *)
(* bit 7 of the old VY; when X = F, VF holds the shifted-out bit; nothing  *)
(* else changes. Checked for X, Y in RegSamples and the values in          *)
(* ByteSamples.                                                            *)
C13_ShiftsReadVY ==
    (CanFetch /\ Top(Fetched(Machine)) = 8 /\ FieldN(Fetched(Machine)) \in {6, 14}) =>
        \A x \in RegSamples, y \in RegSamples,
           vx \in ByteSamples, vy \in ByteSamples :
            LET n == FieldN(Fetched(Machine))
                m0 == Fetching(W(8, x, y, n), x, vx, y, vy)
                b == V(m0, y)
                out == Dispatch(m0, 0, TRUE)
                value == IF n = 6 THEN b \div 2 ELSE (b * 2) % 256
                bit == IF n = 6 THEN b % 2 ELSE b \div 128
            IN  /\ out.ret = OkRet
                /\ V(out.m, 15) = bit
                /\ x # 15 => V(out.m, x) = value
                /\ OnlyVXandVF(m0, out.m, x)

\* 8016 with V1 = 0xFF has left V0 = 0x7F and VF = 1
C13_Witness ==
    /\ ~panicked
    /\ opcode = W(8,0,1,6)
    /\ program_counter = 524
    /\ registers[1] = 127 /\ registers[2] = 255 /\ registers[16] = 1

\* index values at and around the 12-bit limit
IndexSamples == {0, 1, 3840, 3841, 3968, 4094, 4095}

(* C14: for every index value I in 0..0xFFF and every VX, FX1E leaves the  *)
(* index register at (I + VX) mod 4096 and VF = 1 if I + VX > 4095, VF = 0 *)
(* otherwise; nothing else changes. Checked for I in IndexSamples, X in    *)
(* RegSamples and VX in ByteSamples.                                       *)
C14_IndexOverflow ==
    (CanFetch /\ Top(Fetched(Machine)) = 15 /\ FieldNN(Fetched(Machine)) = 30) =>
        \A i \in IndexSamples, x \in RegSamples, vx \in ByteSamples :
            LET m0 == [Fetching(W(15, x, 1, 14), x, vx, x, vx)
                          EXCEPT !.index_register = i]
                out == Dispatch(m0, 0, TRUE)
            IN  /\ out.ret = OkRet
                /\ out.m.index_register = (i + vx) % 4096
                /\ V(out.m, 15) = (IF i + vx > 4095 THEN 1 ELSE 0)
                /\ out.m = [m0 EXCEPT !.index_register = out.m.index_register,
                                      !.registers = SetV(m0, 15, V(out.m, 15)).registers]

\* F01E with I = 0xFFF and V0 = 2 has left I = 0x001 and VF = 1
C14_Witness ==
    /\ ~panicked
    /\ opcode = W(15,0,1,14)
    /\ program_counter = 538
    /\ registers[1] = 2
    /\ index_register = 1 /\ registers[16] = 1

(* C15: the program counter is even in every reachable state, whatever    *)
(* opcodes the ROM contains.                                               *)
C15_ProgramCounterEven == program_counter % 2 = 0

\* 00CN, 00FB, 00FD, 00FE, 00FF, FX75, FX85
IsSuperChip(f) ==
    \/ f \in 192..207
    \/ f \in {251, 253, 254, 255}
    \/ Top(f) = 15 /\ FieldNN(f) \in {117, 133}

\* the machine with the SUPER-CHIP opcodes quirk enabled
QuirkEnabled == [Machine EXCEPT !.quirks.superchip_opcodes = TRUE]

(* C16: with the SUPER-CHIP opcodes quirk disabled, a cycle that fetches   *)
(* 00CN, 00FB, 00FD, 00FE, 00FF, FX75 or FX85 returns UnknownOpcode with   *)
(* the opcode and changes nothing but the program counter and the record   *)
(* of the fetched opcode; and a CHIP-8 instruction never reaches the       *)
(* SUPER-CHIP handlers: it does the same with the quirk enabled.           *)
C16_SuperChipGating ==
    (CanFetch /\ ~quirks.superchip_opcodes) =>
        LET f == Fetched(Machine)
        IN  /\ IsSuperChip(f) =>
                  \A out \in CycleOutcomes :
                      /\ out.ret = UnknownOpcode(f)
                      /\ out.m = [Machine EXCEPT
                                      !.opcode = f,
                                      !.program_counter = program_counter + 2]
            /\ IsChip8(f) =>
                  \A rnd \in RandomBytes(Machine), checks \in OverflowChecks(Machine) :
                      LET off == emulate_cycle(Machine, rnd, checks)
                          on == emulate_cycle(QuirkEnabled, rnd, checks)
                      IN  /\ on.ret = off.ret
                          /\ on.m = [off.m EXCEPT !.quirks = QuirkEnabled.quirks]

\* 00FD has been rejected with the glyph drawn before it still on the screen
C16_Witness ==
    /\ ~panicked
    /\ ~quirks.superchip_opcodes
    /\ opcode = 253
    /\ program_counter = 522
    /\ NonZeroAt(gfx) = {0, 8, 16, 24, 32}
    /\ rpl = Fill(0, 8)

\* key arguments: every valid key, the first invalid ones and the largest u8
KeySamples == (0..17) \cup {255}

(* C17: press(k) and release(k) with k in 0..15 return Ok and set key k    *)
(* pressed, respectively released, leaving the other keys and all other    *)
(* state unchanged; with k > 15 they return InvalidKeycode and leave the   *)
(* machine unchanged.                                                      *)
C17_KeypadMutation ==
    ~panicked =>
        \A k \in KeySamples :
            LET p == press(Machine, k)
                r == release(Machine, k)
            IN  IF k <= 15
                THEN /\ p.ret = OkRet
                     /\ r.ret = OkRet
                     /\ p.m = [Machine EXCEPT !.keys[k + 1] = TRUE]
                     /\ r.m = [Machine EXCEPT !.keys[k + 1] = FALSE]
                ELSE /\ p.ret = InvalidKeycode
                     /\ r.ret = InvalidKeycode
                     /\ p.m = Machine
                     /\ r.m = Machine

\* key 1 is pressed and key 0, pressed before the wait, has been released
C17_Witness ==
    /\ ~panicked
    /\ opcode = W(15,3,0,10)
    /\ registers[4] = 0
    /\ keys[2] /\ ~keys[1]

\* what the j-th of j successive update_sound_timer calls on m returns
RECURSIVE SoundTick(_, _)
SoundTick(m, j) ==
    IF j = 1 THEN update_sound_timer(m).ret
    ELSE SoundTick(update_sound_timer(m).m, j - 1)

(* C18: update_delay_timer and update_sound_timer decrement their timer by *)
(* 1 when it is positive and leave it at 0 when it is 0, changing nothing  *)
(* else; update_sound_timer returns true exactly when the sound timer was  *)
(* positive; after FX18 has set the sound timer to k = VX the next k sound *)
(* ticks return true and the later ones false.                             *)
C18_TimersCountDown ==
    ~panicked =>
        LET d == update_delay_timer(Machine)
            s == update_sound_timer(Machine)
        IN  /\ d.m = [Machine EXCEPT !.delay_timer =
                          IF delay_timer > 0 THEN delay_timer - 1 ELSE 0]
            /\ s.m = [Machine EXCEPT !.sound_timer =
                          IF sound_timer > 0 THEN sound_timer - 1 ELSE 0]
            /\ s.ret = BoolRet(sound_timer > 0)
            /\ (CanFetch /\ Top(Fetched(Machine)) = 15
                         /\ FieldNN(Fetched(Machine)) = 24) =>
                  \A out \in CycleOutcomes :
                      LET k == registers[FieldX(Fetched(Machine)) + 1]
                      IN  /\ out.m.sound_timer = k
                          /\ \A j \in 1..(k + 2) :
                                SoundTick(out.m, j) = BoolRet(j <= k)

\* FX18 and FX15 have set both timers to 2; one sound tick and two delay
\* ticks later the sound timer is at 1 and the delay timer at 0
C18_Witness ==
    /\ ~panicked
    /\ registers[1] = 2
    /\ opcode = W(15,0,1,8)
    /\ sound_timer = 1
    /\ delay_timer = 0

(* C20: when the ROM file cannot be read, load_rom_from_file returns       *)
(* FileError with the given path and leaves every field of the machine as  *)
(* it was.                                                                 *)
C20_UnreadableFile ==
    ~panicked =>
        \A file_path \in Paths :
            ~fs_read(file_path).ok =>
                LET out == load_rom_from_file(Machine, file_path)
                IN  /\ out.ret = FileError(file_path)
                    /\ out.m = Machine

\* a machine in the middle of a program, with a key down and a sprite drawn, on which the load of a missing file fails
C20_Witness ==
    /\ ~panicked
    /\ program_counter > 512
    /\ keys[1]
    /\ NonZeroAt(gfx) # {}
    /\ load_rom_from_file(Machine, "missing").ret = FileError("missing")

(* C19: an emulation error never halts execution: in the host loop, a     *)
(* Tick whose cycle returns an error completes (the error is passed on and *)
(* the host goes on running), and the next cycle fetches the instruction   *)
(* at the program counter the failed cycle left.                           *)
C19_ErrorNeverHalts ==
    (~panicked /\ running /\ CanFetch) =>
        \A rnd \in RandomBytes(Machine), checks \in BOOLEAN, due \in BOOLEAN :
            LET c == emulate_cycle(Machine, rnd, checks)
                t == Tick(Machine, rnd, checks, due)
            IN  (c.ret # OkRet /\ c.ret # Panic) =>
                  /\ t.ret = c.ret
                  /\ t.m.program_counter = c.m.program_counter
                  /\ BInBounds(t.m.memory, t.m.program_counter + 1)
                  /\ \A r \in RandomBytes(t.m), k \in OverflowChecks(t.m) :
                        emulate_cycle(t.m, r, k).m.opcode = Fetched(t.m)

----------------------------------------------------------------------------
\* the outcome of the cycle that fetches opcode opc at address a on machine m
CycleAt(m, a, opc) ==
    Dispatch([m EXCEPT !.opcode = opc, !.program_counter = a + 2], 0, TRUE)

\* the i-th call site of a chain of nested calls: the address of the 2NNN
\* and its target
CallSite(i) == [a |-> 768 + 6 * i, nnn |-> 1024 + 10 * i]

\* the machine after the calls at CallSite(i), ..., CallSite(depth)
RECURSIVE NestCalls(_, _, _)
NestCalls(r, i, depth) ==
    IF i > depth \/ r.ret # OkRet THEN r
    ELSE NestCalls(CycleAt(r.m, CallSite(i).a, 8192 + CallSite(i).nnn),
                   i + 1, depth)

\* the program counters that k successive 00EE leave, first return first,
\* followed by the stack pointer after the last one
RECURSIVE Returns(_, _)
Returns(m, k) ==
    IF k = 0 THEN << m.stack_pointer >>
    ELSE LET r == CycleAt(m, 1536, 238)
         IN  IF r.ret # OkRet THEN << r.ret >>
             ELSE << r.m.program_counter >> \o Returns(r.m, k - 1)

(* C21: a 2NNN fetched at address A that completes leaves the stack        *)
(* pointer one higher, A + 2 in the slot it designates and the program     *)
(* counter at NNN; a 00EE executed on that stack sets the program counter  *)
(* to A + 2 and the stack pointer to its value before the call; and after  *)
(* any number of nested calls that fit in the stack, as many returns give  *)
(* the return addresses in the reverse order of the calls and restore the  *)
(* stack pointer.                                                          *)
C21_CallReturnRoundTrip ==
    (CanFetch /\ Top(Fetched(Machine)) = 2) =>
        /\ \A out \in CycleOutcomes :
              out.ret = OkRet =>
                /\ out.m.stack_pointer = stack_pointer + 1
                /\ At(out.m.stack, out.m.stack_pointer) = program_counter + 2
                /\ out.m.program_counter = Fetched(Machine) % 4096
                /\ LET back == CycleAt(out.m, out.m.program_counter, 238)
                   IN  /\ back.ret = OkRet
                       /\ back.m.program_counter = program_counter + 2
                       /\ back.m.stack_pointer = stack_pointer
        /\ \A depth \in 1..(15 - stack_pointer) :
              LET nested == NestCalls(Done(Machine), 1, depth)
              IN  /\ nested.ret = OkRet
                  /\ nested.m.stack_pointer = stack_pointer + depth
                  /\ Returns(nested.m, depth) =
                        [j \in 1..(depth + 1) |->
                            IF j <= depth THEN CallSite(depth + 1 - j).a + 2
                            ELSE stack_pointer]

\* the calls at 0x200 and 0x204 have returned, the inner one first: the
\* second 00EE has left the program counter at 0x202 and the stack empty
C21_Witness ==
    /\ ~panicked
    /\ opcode = 238
    /\ program_counter = 514
    /\ stack_pointer = 0
    /\ stack[2] = 514 /\ stack[3] = 518

----------------------------------------------------------------------------
\* register contents: the current ones, sixteen different values, all 0xFF
RegisterFiles == {registers, [i \in 1..16 |-> (37 * i) % 256], Fill(255, 16)}

\* index values: the start of memory, the font table, the program and the
\* last bytes of memory
TransferIndexes == {0, 80, 512, 4079, 4080, 4081, 4095}

\* image v1 is image v but for the bytes at the addresses in cells
SameOutside(v, v1, cells) ==
    /\ BLen(v1) = BLen(v)
    /\ \A a \in (NonZeroAt(v) \cup NonZeroAt(v1)) \ cells : BAt(v1, a) = BAt(v, a)

(* C22: for every X, index I and register contents, an FX55 that completes *)
(* leaves memory[I + k] = Vk for k in 0..X and changes no other memory     *)
(* byte, no register and not the index register; an FX65 that completes    *)
(* leaves Vk = memory[I + k] for k in 0..X and changes no register above   *)
(* VX, no memory byte and not the index register; and an FX65 with the     *)
(* same X and index after the FX55 gives V0..VX the values they had at the *)
(* FX55, whatever the registers hold by then. Checked for the indexes in   *)
(* TransferIndexes and the register contents in RegisterFiles.             *)
C22_BlockTransfer ==
    (CanFetch /\ Top(Fetched(Machine)) = 15
              /\ FieldNN(Fetched(Machine)) \in {85, 101}) =>
        \A x \in 0..15, i \in TransferIndexes, regs \in RegisterFiles :
            LET m0 == [Machine EXCEPT !.registers = regs, !.index_register = i]
                a == program_counter
                st == CycleAt(m0, a, W(15, x, 5, 5))
                ld == CycleAt(m0, a, W(15, x, 6, 5))
            IN  /\ st.ret = OkRet =>
                      /\ \A k \in 0..x : BAt(st.m.memory, i + k) = regs[k + 1]
                      /\ SameOutside(memory, st.m.memory, i..(i + x))
                      /\ st.m = [m0 EXCEPT !.opcode = W(15, x, 5, 5),
                                           !.program_counter = a + 2,
                                           !.memory = st.m.memory]
                      /\ \A other \in RegisterFiles :
                            LET back == CycleAt([st.m EXCEPT !.registers = other],
                                                a + 2, W(15, x, 6, 5))
                            IN  /\ back.ret = OkRet
                                /\ \A k \in 0..x : V(back.m, k) = regs[k + 1]
                /\ ld.ret = OkRet =>
                      /\ \A k \in 0..x : V(ld.m, k) = BAt(memory, i + k)
                      /\ \A k \in (x + 1)..15 : V(ld.m, k) = regs[k + 1]
                      /\ ld.m = [m0 EXCEPT !.opcode = W(15, x, 6, 5),
                                           !.program_counter = a + 2,
                                           !.registers = ld.m.registers]

\* F155 has stored V0 and V1 = 3 at I = 0x303 and F165 has read them back
C22_Witness ==
    /\ ~panicked
    /\ opcode = W(15,1,6,5)
    /\ program_counter = 538
    /\ index_register = 771
    /\ registers[2] = 3
    /\ BAt(memory, 771) = registers[1]
    /\ BAt(memory, 772) = registers[2]

----------------------------------------------------------------------------
(* C23: for every value of VX in 0..255, FX29 succeeds and leaves the      *)
(* index register at 0x050 + 5 * (VX mod 16), where after a load the five  *)
(* bytes of the glyph of that hexadecimal digit begin.                     *)
C23_FontGlyphAddress ==
    (CanFetch /\ Top(Fetched(Machine)) = 15 /\ FieldNN(Fetched(Machine)) = 41) =>
        \A out \in CycleOutcomes :
            LET digit == registers[FieldX(Fetched(Machine)) + 1] % 16
            IN  /\ out.ret = OkRet
                /\ out.m.index_register = 80 + 5 * digit
                /\ \A k \in 0..4 :
                      BAt(out.m.memory, out.m.index_register + k) =
                          BAt(font, 5 * digit + k)

----------------------------------------------------------------------------
(* C24: with the SUPER-CHIP opcodes enabled and X <= 7, FX75 returns Ok    *)
(* and leaves V0..VX in RPL[0..X], and an FX85 with the same X executed    *)
(* after V0..VX were overwritten returns Ok and leaves V0..VX as they were *)
(* at the FX75; with X > 7 either opcode returns InvalidRegisterReference  *)
(* and changes neither the registers nor the RPL store. Checked for the    *)
(* register contents in RegisterFiles.                                     *)
C24_RplRoundTrip ==
    (CanFetch /\ Top(Fetched(Machine)) = 15
              /\ FieldNN(Fetched(Machine)) \in {117, 133}) =>
        \A x \in 0..15, regs \in RegisterFiles, other \in RegisterFiles :
            LET m0 == [QuirkEnabled EXCEPT !.registers = regs]
                a == program_counter
                save == CycleAt(m0, a, W(15, x, 7, 5))
                load == CycleAt([save.m EXCEPT !.registers = other],
                                a + 2, W(15, x, 8, 5))
                refused == CycleAt(m0, a, W(15, x, 8, 5))
            IN  IF x <= 7
                THEN /\ save.ret = OkRet
                     /\ \A k \in 0..x : At(save.m.rpl, k) = regs[k + 1]
                     /\ load.ret = OkRet
                     /\ \A k \in 0..x : V(load.m, k) = regs[k + 1]
                ELSE /\ save.ret = InvalidRegisterReference
                     /\ save.m.registers = regs /\ save.m.rpl = rpl
                     /\ refused.ret = InvalidRegisterReference
                     /\ refused.m.registers = regs /\ refused.m.rpl = rpl

(* C25: with the SUPER-CHIP opcodes enabled, 00CN returns Ok and leaves a  *)
(* framebuffer of exactly 256 bytes (which screen() returns) whose rows    *)
(* 0..N-1 are blank and whose row r, N <= r < 32, is the former row r - N. *)
C25_ScrollDown ==
    (CanFetch /\ Fetched(Machine) \in 192..207) =>
        \A n \in 0..15 :
            LET out == CycleAt(QuirkEnabled, program_counter, 192 + n)
            IN  /\ out.ret = OkRet
                /\ BLen(out.m.gfx) = 256
                /\ BLen(screen(out.m)) = 256
                /\ \A i \in 0..255 :
                      BAt(screen(out.m), i) =
                          IF i < 8 * n THEN 0 ELSE BAt(gfx, i - 8 * n)

(* C26: with the SUPER-CHIP opcodes enabled, 00FF returns Ok and leaves    *)
(* the resolution flag at high resolution, 00FE returns Ok and leaves it   *)
(* at low resolution; the flag is low resolution at construction and after *)
(* every load.                                                             *)
C26_ResolutionMode ==
    /\ ~Chip8EmuDefault.is_hi_res_mode
    /\ ~panicked =>
          \A file_path \in Paths :
              LET out == load_rom_from_file(Machine, file_path)
              IN  out.ret = OkRet => ~out.m.is_hi_res_mode
    /\ (CanFetch /\ Fetched(Machine) \in {254, 255}) =>
          LET hi == CycleAt(QuirkEnabled, program_counter, 255)
              lo == CycleAt(hi.m, program_counter + 2, 254)
          IN  /\ hi.ret = OkRet /\ hi.m.is_hi_res_mode
              /\ lo.ret = OkRet /\ ~lo.m.is_hi_res_mode

----------------------------------------------------------------------------
\* the framebuffer bytes an N-row sprite drawn at column cx, row cy may
\* write: for each sprite row the byte at byte column cx / 8 of a display
\* row and, when cx is no multiple of 8 and cx < 56, the next byte of that row
SpriteCells(cx, cy, n) ==
    UNION { LET first == ((cy + r) % 32) * 8 + (cx \div 8)
            IN  IF cx % 8 # 0 /\ cx < 56 THEN {first, first + 1} ELSE {first}
          : r \in 0..(n - 1) }

(* C27: a DXYN whose sprite bytes are in memory never aborts the cycle,    *)
(* sprites that reach below row 31 included, and writes only framebuffer   *)
(* bytes with an index in 0..255: for each sprite row the byte at byte     *)
(* column cx / 8 of a display row and, when cx is no multiple of 8 and     *)
(* cx < 56, the next byte of the same row, with cx = VX & 0x3F and         *)
(* cy = VY & 0x1F.                                                         *)
C27_DrawStaysInside ==
    (CanFetch /\ Top(Fetched(Machine)) = 13) =>
        \A out \in CycleOutcomes :
            LET f == Fetched(Machine)
                n == FieldN(f)
                cx == registers[FieldX(f) + 1] % 64
                cy == registers[FieldY(f) + 1] % 32
            IN  (n = 0 \/ BInBounds(memory, index_register + n - 1)) =>
                  /\ out.ret = OkRet
                  /\ BLen(out.m.gfx) = BLen(gfx)
                  /\ SpriteCells(cx, cy, n) \subseteq 0..255
                  /\ \A i \in NonZeroAt(gfx) \cup NonZeroAt(out.m.gfx) :
                        BAt(out.m.gfx, i) # BAt(gfx, i) =>
                            i \in SpriteCells(cx, cy, n)

----------------------------------------------------------------------------
\* the opcodes that write the index register: ANNN, FX1E, FX29
WritesIndex(f) == Top(f) = 10 \/ (Top(f) = 15 /\ FieldNN(f) \in {30, 41})

(* C28: the index register is at most 0x0FFF in every reachable state: it  *)
(* is 0 at construction and after a load, ANNN leaves the 12-bit NNN in    *)
(* it, FX29 a font offset, FX1E the sum modulo 4096, and no other opcode   *)
(* and no keypad or timer operation changes it.                            *)
C28_IndexRegisterRange ==
    /\ index_register \in 0..4095
    /\ Chip8EmuDefault.index_register = 0
    /\ CanFetch =>
          \A out \in CycleOutcomes :
              LET f == Fetched(Machine)
                  vx == registers[FieldX(f) + 1]
                  i == out.m.index_register
              IN  /\ ~WritesIndex(f) => i = index_register
                  /\ Top(f) = 10 => i = f % 4096
                  /\ (Top(f) = 15 /\ FieldNN(f) = 30) =>
                        i = (index_register + vx) % 4096
                  /\ (Top(f) = 15 /\ FieldNN(f) = 41) =>
                        i \in {index_register} \cup {80 + 5 * d : d \in 0..15}
    /\ ~panicked =>
          /\ \A file_path \in Paths :
                LET out == load_rom_from_file(Machine, file_path)
                IN  out.m.index_register =
                        IF out.ret = FileError(file_path) THEN index_register
                        ELSE 0
          /\ \A key \in KeySamples :
                /\ press(Machine, key).m.index_register = index_register
                /\ release(Machine, key).m.index_register = index_register
          /\ update_delay_timer(Machine).m.index_register = index_register
          /\ update_sound_timer(Machine).m.index_register = index_register

\* FF1E has added VF = 1 to the index register that F01E had wrapped to 1
C28_Witness ==
    /\ ~panicked
    /\ opcode = W(15,15,1,14)
    /\ program_counter = 540
    /\ index_register = 2
    /\ registers[16] = 0

----------------------------------------------------------------------------
(* C29: the quirk flags are all false in every reachable state and no      *)
(* operation changes them, so a cycle never enters a SUPER-CHIP handler    *)
(* (the SUPER-CHIP opcodes are rejected with UnknownOpcode), and every     *)
(* error a cycle returns is UnknownOpcode, NoSubroutineToExit or           *)
(* InvalidValueInRegister: never StackOverflow, ProgramExited or           *)
(* InvalidRegisterReference, whatever the ROM and the call depth.          *)
C29_QuirksFixed ==
    /\ quirks = [ superchip_opcodes |-> FALSE, superchip_shift |-> FALSE,
                  superchip_offset_jump |-> FALSE, superchip_memory |-> FALSE ]
    /\ CanFetch =>
          \A out \in CycleOutcomes :
              LET f == Fetched(Machine)
              IN  /\ out.m.quirks = quirks
                  /\ IsSuperChip(f) => out.ret = UnknownOpcode(f)
                  /\ out.ret \notin {StackOverflow, ProgramExited,
                                     InvalidRegisterReference}
                  /\ \/ out.ret \in {OkRet, Panic, NoSubroutineToExit}
                     \/ out.ret = UnknownOpcode(f)
                     \/ out.ret = InvalidValueInRegister(FieldX(f),
                                      registers[FieldX(f) + 1])
    /\ ~panicked =>
          /\ \A file_path \in Paths :
                load_rom_from_file(Machine, file_path).m.quirks = quirks
          /\ \A key \in KeySamples :
                /\ press(Machine, key).m.quirks = quirks
                /\ release(Machine, key).m.quirks = quirks
          /\ update_delay_timer(Machine).m.quirks = quirks
          /\ update_sound_timer(Machine).m.quirks = quirks

\* F185 has been rejected at 0x210 after the other SUPER-CHIP opcodes, with
\* the RPL store and the resolution flag untouched
C29_Witness ==
    /\ ~panicked
    /\ opcode = W(15,1,8,5)
    /\ program_counter = 530
    /\ ~quirks.superchip_opcodes
    /\ rpl = Fill(0, 8)
    /\ BLen(gfx) = 256
    /\ ~is_hi_res_mode

----------------------------------------------------------------------------
(* C30: after every host Tick that runs a cycle, the index sent in         *)
(* SelectOpcode can be computed, whatever program counter the cycle left   *)
(* (values below 0x200 included), and designates in the list of            *)
(* get_opcodes the instruction at that program counter: entry i is the     *)
(* word at 0x200 + 2i, so 0x200 + 2 * index is the program counter.        *)
C30_SelectedOpcode ==
    (~panicked /\ running /\ CanFetch) =>
        \A rnd \in RandomBytes(Machine), checks \in BOOLEAN :
            LET c == emulate_cycle(Machine, rnd, checks)
                sel == SelectOpcode(c.m, checks)
            IN  c.ret # Panic =>
                  /\ sel.ok
                  /\ 512 + 2 * sel.i = c.m.program_counter
                  /\ sel.i + 1 \in DOMAIN get_opcodes(c.m)
                  /\ get_opcodes(c.m)[sel.i + 1] = Fetched(c.m)

----------------------------------------------------------------------------
(* C31: in the file selector, with a non-empty file list and a valid       *)
(* selected index (0 <= selected_file < number of files, as it is when the *)
(* list is first filled), MoveFileSelectorUp and MoveFileSelectorDown      *)
(* leave a valid index, so after any sequence of them SelectFile emits     *)
(* LoadFile with a name of the list.                                       *)
C31_SelectionValid ==
    (~panicked /\ filenames # << >> /\ selected_file < Len(filenames)) =>
        \A checks \in BOOLEAN :
            \A out \in {MoveFileSelectorDown(FileSelector, checks),
                        MoveFileSelectorUp(FileSelector)} :
                /\ out.ret = NoAction
                /\ out.s.filenames = filenames
                /\ out.s.selected_file \in 0..(Len(filenames) - 1)
                /\ SelectFile(out.s).ret \in
                      {LoadFile(filenames[i]) : i \in 1..Len(filenames)}

----------------------------------------------------------------------------
\* every key that is pressed is still pressed after the step
KeysStaySet == \A k \in 1..16 : keys[k] => keys'[k]

\* with a key down, a Tick on FX0A does not wait, and a Tick on EX9E whose
\* VX names a key that is down skips
NoWaitOnceSet ==
    (~panicked /\ CanFetch) =>
        \A checks \in BOOLEAN, due \in BOOLEAN :
            LET f == Fetched(Machine)
                t == Tick(Machine, 0, checks, due)
            IN  /\ (KeyWaiting /\ AnyKeyPressed) =>
                      /\ t.ret = OkRet
                      /\ t.m.program_counter = program_counter + 2
                      /\ keys[t.m.registers[FieldX(f) + 1] + 1]
                /\ (Top(f) = 14 /\ FieldNN(f) = 158
                      /\ keys[(registers[FieldX(f) + 1] % 16) + 1]) =>
                      /\ t.ret = OkRet
                      /\ t.m.program_counter = program_counter + 4

(* C32: in the host loop a key that a key event has pressed stays pressed  *)
(* in every later state until a ROM load resets the keypad (no step of the *)
(* host but the load releases a key); so once a key is down after a load,  *)
(* no FX0A waits and EX9E on a key that is down skips.                     *)
C32_KeysOnlySet == [][KeysStaySet \/ ActionLoadFile]_vars /\ []NoWaitOnceSet

\* the host runs, key 0 went down during the wait at 0x200, the wait has
\* ended with V3 = 0 and EX9E on V3 has skipped to 0x206
C32_Witness ==
    /\ ~panicked
    /\ running
    /\ keys[1]
    /\ opcode = W(14,3,9,14)
    /\ registers[4] = 0
    /\ program_counter = 518

----------------------------------------------------------------------------
(* C33: with the SUPER-CHIP opcodes disabled, every opcode 5XYN or 9XYN    *)
(* with N # 0, for every X and Y, is rejected with UnknownOpcode and is    *)
(* never executed as a skip: the cycle leaves the program counter 2 past   *)
(* the opcode and changes nothing else but the record of the fetched       *)
(* opcode.                                                                 *)
C33_CompareSkipsNeedZeroNibble ==
    (CanFetch /\ ~quirks.superchip_opcodes
              /\ Top(Fetched(Machine)) \in {5, 9}
              /\ FieldN(Fetched(Machine)) # 0) =>
        \A top \in {5, 9}, x \in 0..15, y \in 0..15, n \in 1..15 :
            LET out == CycleAt(Machine, program_counter, W(top, x, y, n))
            IN  /\ out.ret = UnknownOpcode(W(top, x, y, n))
                /\ out.m = [Machine EXCEPT
                                !.opcode = W(top, x, y, n),
                                !.program_counter = program_counter + 2]

====
